---- MODULE Spec2Model ----
(***************************************************************************)
(* Handler lifecycle of the library root logger of python_template         *)
(* (src/src/python_template/logging/_logging.py): the module global        *)
(* _default_handler, the root logger's handler list, level and propagate   *)
(* flag, and the two suppression context managers.                         *)
(***************************************************************************)
EXTENDS Integers, Sequences, FiniteSets, TLC

\* ------------------------------------------------------------------ bounds
MaxCreated == 2     \* default handlers ever created (first configure + resets)
MaxDepth   == 2     \* nesting depth of with-blocks
NumCustom  == 2     \* caller-owned handlers that may be attached to the root
NumThreads == 2     \* threads racing on the first configure

\* ------------------------------------------------------- logging constants
NOTSET  == 0
DEBUG   == 10
INFO    == 20
WARNING == 30

None == <<"None">>

\* Handler objects are told apart by identity only.
DefaultH(n) == <<"StreamHandler", n>>     \* n-th result of _create_default_handler
CustomH(k)  == <<"custom", k>>            \* a handler owned by the caller
ClassNull   == <<"NullHandler", 0>>       \* catch_default_handler.null_handler
\* Variant: catch_all_handler shares one class-level placeholder, the way
\* catch_default_handler does.
SharedNull(d) == ClassNull

InstNull(d) == <<"NullHandler", d>>       \* the NullHandler() of the scope at depth d

Customs == {CustomH(k) : k \in 1..NumCustom}

Range(s) == {s[i] : i \in 1..Len(s)}

\* ------------------------------------------- logging.Logger list primitives
\* Variant: addHandler appends without looking for the handler in the list.
AppendHandler(hs, h) == Append(hs, h)

\* Logger.addHandler: append unless the handler is already in the list.
AddHandler(hs, h) == IF h \in Range(hs) THEN hs ELSE Append(hs, h)

\* Logger.removeHandler: list.remove of the first occurrence, if present.
RECURSIVE RemoveFirst(_, _)
RemoveFirst(hs, h) ==
    IF hs = <<>> THEN <<>>
    ELSE IF Head(hs) = h THEN Tail(hs)
    ELSE <<Head(hs)>> \o RemoveFirst(Tail(hs), h)

RemoveHandler(hs, h) == IF h \in Range(hs) THEN RemoveFirst(hs, h) ELSE hs

\* ---------------------------------------------------------------- registry
\* A registry value st gathers the process-wide state the functions touch:
\*   default_handler  the module global _default_handler
\*   handlers, level, propagate   fields of getLogger(_get_library_name())
\*   created          how many default handlers have been constructed
RECURSIVE configure_library_root_logger(_), get_library_root_logger(_)

\* Variant: no "already configured" guard; every call builds and attaches a
\* fresh default handler.
configure_always(st) ==
    LET s1 == [st EXCEPT !.default_handler = DefaultH(st.created + 1),
                         !.created = st.created + 1]
    IN  [s1 EXCEPT !.handlers  = AddHandler(s1.handlers, s1.default_handler),
                   !.level     = INFO,
                   !.propagate = FALSE]

\* Variant: the first configuration attaches the handler but leaves the root
\* logger's level and propagate flag as the backend created them.
configure_handler_only(st) ==
    IF st.default_handler # None
    THEN st
    ELSE LET s1 == [st EXCEPT !.default_handler = DefaultH(st.created + 1),
                              !.created = st.created + 1]
             s2 == get_library_root_logger(s1)
         IN  [s2 EXCEPT !.handlers = AddHandler(s2.handlers, s2.default_handler)]

\* Variant: a call that finds the slot set applies the configuration again.
configure_again(st) ==
    IF st.default_handler # None
    THEN [st EXCEPT !.handlers  = AddHandler(st.handlers, st.default_handler),
                    !.level     = INFO,
                    !.propagate = FALSE]
    ELSE LET s1 == [st EXCEPT !.default_handler = DefaultH(st.created + 1),
                              !.created = st.created + 1]
         IN  [s1 EXCEPT !.handlers  = AddHandler(s1.handlers, s1.default_handler),
                        !.level     = INFO,
                        !.propagate = FALSE]

\* _configure_library_root_logger, lines 259-271
configure_library_root_logger(st) ==
    IF st.default_handler # None
    THEN st
    ELSE LET s1 == [st EXCEPT !.default_handler = DefaultH(st.created + 1),
                              !.created = st.created + 1]
             s2 == get_library_root_logger(s1)
         IN  [s2 EXCEPT !.handlers  = AddHandler(s2.handlers, s2.default_handler),
                        !.level     = INFO,
                        !.propagate = FALSE]

\* get_library_root_logger, lines 333-335 (the returned logger is the registry)
get_library_root_logger(st) == configure_library_root_logger(st)

\* the loop of _reset_library_root_logger, lines 299-300
RECURSIVE reset_loop(_, _)
reset_loop(st, copy) ==
    IF copy = <<>> THEN st
    ELSE LET s1 == get_library_root_logger(st)
         IN  reset_loop([s1 EXCEPT !.handlers = RemoveHandler(s1.handlers, Head(copy))],
                        Tail(copy))

\* _reset_library_root_logger, lines 296-302
reset_library_root_logger(st) ==
    LET s0 == [st EXCEPT !.default_handler = None]
        s1 == get_library_root_logger(s0)
        s2 == reset_loop(s1, s1.handlers)
    IN  configure_library_root_logger(s2)

\* Variant: enable_default_handler relies on the lazy configuration to attach
\* the handler and never calls addHandler itself.
enable_only_configures(st) == configure_library_root_logger(st)

\* enable_default_handler, lines 416-419
enable_default_handler(st) ==
    LET s1 == configure_library_root_logger(st)
        s2 == get_library_root_logger(s1)
    IN  [s2 EXCEPT !.handlers = AddHandler(s2.handlers, s1.default_handler)]

\* Variant: disable_default_handler empties the handler list instead of
\* removing the one handler.
disable_clears_handlers(st) ==
    [configure_library_root_logger(st) EXCEPT !.handlers = <<>>]

\* disable_default_handler, lines 444-447
disable_default_handler(st) ==
    LET s1 == configure_library_root_logger(st)
        s2 == get_library_root_logger(s1)
    IN  [s2 EXCEPT !.handlers = RemoveHandler(s2.handlers, s1.default_handler)]

\* Variant: only the logger's own handler list is looked at.
hasOwnHandlers(st, parent_has) == st.handlers # <<>>

\* Logger.hasHandlers of the library root logger, whose parent is the logging
\* backend's root: the walk stops at the first logger that has handlers or at
\* the first one that does not propagate (used at line 481).
hasHandlers(st, parent_has) ==
    IF st.handlers # <<>> THEN TRUE
    ELSE IF ~st.propagate THEN FALSE
    ELSE parent_has

\* ------------------------------------------------------------ child loggers
\* A logger name is a sequence of tokens: the library name, the separator
\* ".", a line break, or any other run of characters.
LibraryName == "python_template"     \* _get_library_name(), line 96

\* re.match(rf"{_get_library_name()}\.(.+)", name), line 384: the match is
\* anchored at the start only, and (.+) takes what follows the separator up to
\* the first line break, at least one character.  The result is group(1), or
\* None when there is no match.
RECURSIVE UpToLineBreak(_)
UpToLineBreak(toks) ==
    IF toks = <<>> \/ Head(toks) = "\n" THEN <<>>
    ELSE <<Head(toks)>> \o UpToLineBreak(Tail(toks))

\* Variant: the pattern ends in (.*), which also matches an empty suffix.
MatchEmptySuffix(name) ==
    IF Len(name) >= 2 /\ name[1] = LibraryName /\ name[2] = "."
    THEN UpToLineBreak(SubSeq(name, 3, Len(name)))
    ELSE None

Match(name) ==
    IF /\ Len(name) >= 3
       /\ name[1] = LibraryName
       /\ name[2] = "."
       /\ name[3] # "\n"
    THEN UpToLineBreak(SubSeq(name, 3, Len(name)))
    ELSE None

\* Variant: the child is created beneath a node "root" of the library logger.
getChildBelowRootNode(suffix) == <<LibraryName, ".", "root", ".">> \o suffix

\* root_logger.getChild(suffix): the logger named "<root name>.<suffix>"
getChild(suffix) == <<LibraryName, ".">> \o suffix

\* The path get_child_logger(name) resolves to (lines 384-390), or None when
\* it raises ValueError.
ChildPath(name) ==
    IF Match(name) # None THEN getChild(Match(name))
    ELSE IF name = <<"__main__">> THEN getChild(name)
    ELSE None

\* The backend creates a logger with no handlers and propagate set.
NewLogger == [propagate |-> TRUE, handlers |-> <<>>]

\* Variant: a name the pattern does not match is treated like "__main__",
\* the child of that name is created and configured.
get_child_logger_any_name(lgs, name, prop) ==
    LET path == IF ChildPath(name) # None THEN ChildPath(name)
                ELSE getChild(name)
    IN  [q \in DOMAIN lgs \cup {path} |->
            IF q = path THEN [NewLogger EXCEPT !.propagate = prop] ELSE lgs[q]]

\* Variant: propagate is set only when the logger is created by the call.
get_child_logger_keeps_flag(lgs, name, prop) ==
    LET path == ChildPath(name)
    IN  IF path = None \/ path \in DOMAIN lgs THEN lgs
        ELSE [q \in DOMAIN lgs \cup {path} |->
                 IF q = path THEN [NewLogger EXCEPT !.propagate = prop]
                 ELSE lgs[q]]

\* get_child_logger, lines 382-393, on the child loggers: the logger is created
\* on first use and its propagate flag is set on every successful call.
get_child_logger(lgs, name, prop) ==
    LET path == ChildPath(name)
        old == IF path \in DOMAIN lgs THEN lgs[path] ELSE NewLogger
    IN  IF path = None THEN lgs
        ELSE [q \in DOMAIN lgs \cup {path} |->
                 IF q = path THEN [old EXCEPT !.propagate = prop] ELSE lgs[q]]

\* The attached handlers a record logged through a logger of the library
\* hierarchy is handed to (Logger.callHandlers), for the root logger or a
\* child logger directly under it: every handler of the child, then, while the
\* propagate flags allow, those of the library root and of the backend's root
\* (written "backend").  Handlers keep the level get_handler gives by
\* default, NOTSET, and so take every record.
RootSinks(st, parent_has) ==
    Range(st.handlers) \cup
        (IF st.propagate /\ parent_has THEN {<<"backend">>} ELSE {})

callHandlers(st, parent_has, lgs, path) ==
    IF path = <<LibraryName>> THEN RootSinks(st, parent_has)
    ELSE Range(lgs[path].handlers) \cup
            (IF lgs[path].propagate THEN RootSinks(st, parent_has) ELSE {})

\* Logger.isEnabledFor: child loggers keep level NOTSET, so the effective
\* level is the library root's, or the backend root's WARNING while that is
\* NOTSET too.
isEnabledFor(st, lvl) ==
    lvl >= (IF st.level # NOTSET THEN st.level ELSE WARNING)

\* ------------------------------------------------------ suppression scopes
\* A scope value is one live context-manager instance:
\*   kind          "default" (catch_default_handler) or "all" (catch_all_handler)
\*   handlers      self.handlers, the snapshot of catch_all_handler
\*   null_handler  self.null_handler
\*   pre, post     the root handler list just before and just after __enter__
\*   slot          _default_handler just before __enter__
\*   nested        whether a catch_all_handler block was entered inside it
\*                 (pre, post, slot and nested are bookkeeping for the
\*                 properties; the code reads none of them)

\* Variant: __enter__ detaches every handler and leaves the placeholder.
catch_default_enter_clears(st, parent_has) ==
    [disable_default_handler(st) EXCEPT !.handlers = <<ClassNull>>]

\* catch_default_handler.__enter__, lines 480-482
catch_default_enter(st, parent_has) ==
    LET s1 == disable_default_handler(st)
        s2 == get_library_root_logger(s1)
    IN  IF ~hasHandlers(s2, parent_has)
        THEN LET s3 == get_library_root_logger(s2)
             IN  [s3 EXCEPT !.handlers = AddHandler(s3.handlers, ClassNull)]
        ELSE s2

\* Variant: __exit__ re-enables the default handler and leaves the
\* placeholder attached.
catch_default_exit_keeps_placeholder(st) == enable_default_handler(st)

\* catch_default_handler.__exit__, lines 491-493
catch_default_exit(st) ==
    LET s1 == enable_default_handler(st)
        s2 == get_library_root_logger(s1)
    IN  IF ClassNull \in Range(s2.handlers)
        THEN LET s3 == get_library_root_logger(s2)
             IN  [s3 EXCEPT !.handlers = RemoveHandler(s3.handlers, ClassNull)]
        ELSE s2

\* the for loops of catch_all_handler over self.handlers (lines 534-535, 562-563)
RECURSIVE remove_each(_, _), add_each(_, _)
remove_each(hs, todo) ==
    IF todo = <<>> THEN hs ELSE remove_each(RemoveHandler(hs, Head(todo)), Tail(todo))

add_each(hs, todo) ==
    IF todo = <<>> THEN hs ELSE add_each(AddHandler(hs, Head(todo)), Tail(todo))

\* catch_all_handler.__enter__, lines 530-537: the snapshot is taken from the
\* logger get_library_root_logger() returns, i.e. after lazy configuration.
catch_all_snapshot(st) == get_library_root_logger(st).handlers

catch_all_enter(st, null) ==
    LET s1 == get_library_root_logger(st)
        saved == s1.handlers
    IN  [s1 EXCEPT !.handlers = AddHandler(remove_each(s1.handlers, saved), null)]

\* Variant: __exit__ re-attaches the snapshot but leaves the placeholder on.
catch_all_exit_keeps_placeholder(st, scope) ==
    [st EXCEPT !.handlers = add_each(st.handlers, scope.handlers)]

\* catch_all_handler.__exit__, lines 562-565
catch_all_exit(st, scope) ==
    [st EXCEPT !.handlers =
        RemoveHandler(add_each(st.handlers, scope.handlers), scope.null_handler)]

\* Variant: __exit__ ends with "return True".
exit_returns_true(kind) == "True"

\* What __exit__ returns: neither catch_default_handler.__exit__ (lines
\* 484-493) nor catch_all_handler.__exit__ (lines 539-565) has a return
\* statement, so both return None.
exit_returns(kind) == "None"

\* The with statement drops the block's exception when __exit__ returns a
\* true value.
Suppressed(ret) == ret \notin {"None", "False"}

\* --------------------------------------------------------------- formatters
\* The process environment _color_supported looks at: whether the colorlog
\* package can be found, the value of NO_COLOR, and what sys.stderr is (an
\* object without isatty, a stream that is not a terminal, a terminal).
Environs ==
    [colorlog : BOOLEAN,
     NO_COLOR : {"unset", "", "1"},
     stderr : {"no isatty", "not a tty", "tty"}]

\* _color_supported, lines 35-47
color_supported(en) ==
    IF ~en.colorlog THEN FALSE
    ELSE IF en.NO_COLOR \notin {"unset", ""} THEN FALSE
    ELSE IF en.stderr = "no isatty" \/ en.stderr # "tty" THEN FALSE
    ELSE TRUE

\* Handler objects a caller constructs: StreamHandler() writes to sys.stderr,
\* StreamHandler(stream) to a stream of the caller's that is a terminal or a
\* pipe, FileHandler and its subclass RotatingFileHandler to a file.
FileHandlerClasses == {"FileHandler", "RotatingFileHandler"}

HandlerObjects ==
    {[class |-> "StreamHandler", stream |-> s] :
        s \in {"stderr", "terminal", "pipe"}}
    \cup {[class |-> c, stream |-> "file"] : c \in FileHandlerClasses}

\* A handler as its constructor leaves it: level NOTSET, no formatter.
Fresh(obj) == [obj |-> obj, level |-> NOTSET, formatter |-> "unset"]

\* Whether the stream the handler object writes to is a terminal.
OwnStreamIsTerminal(obj, en) ==
    \/ obj.stream = "terminal"
    \/ obj.stream = "stderr" /\ en.stderr = "tty"

\* _is_file_handler, line 76: isinstance(handler, FileHandler)
is_file_handler(obj) == obj.class \in FileHandlerClasses

\* Variant: create_default_formatter asks the probe only and ignores use_color.
create_default_formatter_probe_only(use_color, en) ==
    IF color_supported(en) THEN "ColoredFormatter" ELSE "Formatter"

\* create_default_formatter, lines 132-145; use_color is None, True or False.
create_default_formatter(use_color, en) ==
    LET should_use_color ==
            \/ use_color = "None" /\ color_supported(en)
            \/ use_color = "True" /\ color_supported(en)
    IN  IF should_use_color THEN "ColoredFormatter" ELSE "Formatter"

\* Variant: the level is set only when the level argument is a true value.
get_handler_keeps_level(h, formatter, lvl, en) ==
    LET f == IF formatter = "None"
             THEN create_default_formatter(
                      IF ~is_file_handler(h.obj) THEN "None" ELSE "False", en)
             ELSE formatter
    IN  [handler |-> [h EXCEPT !.level = IF lvl # NOTSET THEN lvl ELSE @,
                               !.formatter = f],
         returned |-> h.obj]

\* get_handler, lines 204-210, on the handler h = [obj, level, formatter]:
\* the handler as the call leaves it, and the object the call returns.
get_handler(h, formatter, lvl, en) ==
    LET h1 == [h EXCEPT !.level = lvl]
        use_color == IF ~is_file_handler(h.obj) THEN "None" ELSE "False"
        f == IF formatter = "None"
             THEN create_default_formatter(use_color, en)
             ELSE formatter
    IN  [handler |-> [h1 EXCEPT !.formatter = f], returned |-> h.obj]

\* ------------------------------------------------------------------- state
VARIABLES
    default_handler,  \* the module global _default_handler (None when unset)
    handlers,         \* handlers of the library root logger, in list order
    level,            \* level of the library root logger
    propagate,        \* propagate flag of the library root logger
    created,          \* number of default handlers constructed so far
    resets,           \* number of _reset_library_root_logger calls so far
    parent_has,       \* whether the logging backend's root logger has handlers
    stack,            \* live with-blocks, innermost last
    last,             \* the operation that produced this state, with its inputs
    threads,          \* per thread: the call it runs, where it is, its locals
    loggers,          \* the child loggers created so far, by path
    environ,          \* what _color_supported reads: colorlog, NO_COLOR, stderr
    handler           \* the handler object the caller constructed last

vars == <<default_handler, handlers, level, propagate, created, resets,
          parent_has, stack, last, threads, loggers, environ, handler>>

\* What get_handler and create_default_formatter read and write.
formatting == <<environ, handler>>

\* What the single-threaded operations on the root logger leave alone.
env == <<parent_has, threads, loggers, formatting>>

Threads == 1..NumThreads

Registry == [default_handler |-> default_handler, handlers |-> handlers,
             level |-> level, propagate |-> propagate, created |-> created]

NoScope == [kind |-> "none", handlers |-> <<>>, null_handler |-> None,
            pre |-> <<>>, post |-> <<>>, slot |-> None, nested |-> FALSE]

\* The arguments and results of a get_handler or create_default_formatter
\* call, kept in the record of the operation; NoCall for every other one.
NoCall ==
    [formatter |-> "none", level |-> <<>>, before |-> Fresh([class |-> "none", stream |-> "none"]),
     returned |-> [class |-> "none", stream |-> "none"], repeat |-> FALSE,
     use_color |-> "none", result |-> "none"]

\* The record of an operation: its name, the handler list and the slot it
\* started from, the scope it entered or left, whether the block raised, and,
\* for enable_default_handler, whether it directly follows a
\* disable_default_handler call and the list and slot that call started
\* from, and, for a logging call, the logger and the handlers that got the
\* record.
Op(name, scope, exc) ==
    [op |-> name, pre |-> handlers, slot |-> default_handler,
     scope |-> scope, exc |-> exc,
     after_disable |-> name = "enable_default_handler"
                       /\ last.op = "disable_default_handler",
     pre0 |-> IF name = "enable_default_handler"
                 /\ last.op = "disable_default_handler"
              THEN last.pre ELSE <<>>,
     slot0 |-> IF name = "enable_default_handler"
                  /\ last.op = "disable_default_handler"
               THEN last.slot ELSE None,
     logger |-> <<>>, sinks |-> {},
     arg |-> "none", old |-> "none", path |-> None,
     raised |-> FALSE, call |-> NoCall,
     level0 |-> level, propagate0 |-> propagate]

\* assert _default_handler is not None (lines 418 and 446), evaluated after
\* _configure_library_root_logger(): TRUE when the assertion fails.
AssertFails(st) == configure_library_root_logger(st).default_handler = None

\* Writes a registry value back to the process state.
Store(st) ==
    /\ default_handler' = st.default_handler
    /\ handlers' = st.handlers
    /\ level' = st.level
    /\ propagate' = st.propagate
    /\ created' = st.created

\* A call may construct a default handler only while the bound allows it.
MayConfigure == default_handler # None \/ created < MaxCreated

InitRegistry ==
    /\ default_handler = None
    /\ handlers = <<>>
    /\ level = NOTSET
    /\ propagate = TRUE
    /\ created = 0
    /\ resets = 0
    /\ parent_has = FALSE
    /\ stack = <<>>
    /\ last = [op |-> "init", pre |-> <<>>, slot |-> None,
               scope |-> NoScope, exc |-> FALSE,
               after_disable |-> FALSE, pre0 |-> <<>>, slot0 |-> None,
               logger |-> <<>>, sinks |-> {},
               arg |-> "none", old |-> "none", path |-> None,
               raised |-> FALSE, call |-> NoCall,
     level0 |-> level, propagate0 |-> propagate]
    /\ threads = [t \in Threads |->
                     [pc |-> "idle", op |-> "none", mine |-> None, arg |-> None,
                      nested |-> 0, steps |-> 0,
                      saved |-> <<>>, todo |-> <<>>,
                      first |-> FALSE, before |-> <<>>]]
    /\ loggers = <<>>

\* The process the registry operations are followed in: colorlog installed,
\* NO_COLOR unset, standard error a terminal.
Terminal == [colorlog |-> TRUE, NO_COLOR |-> "unset", stderr |-> "tty"]

Init ==
    /\ InitRegistry
    /\ environ = Terminal
    /\ handler = Fresh([class |-> "StreamHandler", stream |-> "stderr"])

\* ------------------------------------------------------ public operations
GetLibraryRootLogger ==
    /\ MayConfigure
    /\ Store(get_library_root_logger(Registry))
    /\ last' = Op("get_library_root_logger", NoScope, FALSE)
    /\ UNCHANGED <<resets, stack, env>>

EnableDefaultHandler ==
    /\ MayConfigure
    /\ Store(enable_default_handler(Registry))
    /\ last' = Op("enable_default_handler", NoScope, AssertFails(Registry))
    /\ UNCHANGED <<resets, stack, env>>

DisableDefaultHandler ==
    /\ MayConfigure
    /\ Store(disable_default_handler(Registry))
    /\ last' = Op("disable_default_handler", NoScope, AssertFails(Registry))
    /\ UNCHANGED <<resets, stack, env>>

ResetLibraryRootLogger ==
    /\ created < MaxCreated
    /\ stack = <<>>
    /\ Store(reset_library_root_logger(Registry))
    /\ resets' = resets + 1
    /\ last' = Op("reset", NoScope, FALSE)
    /\ UNCHANGED <<stack, env>>

\* The caller attaches or detaches a handler of its own on the root logger
\* (docs_src/tutorials/logging.py: logger.addHandler / logger.removeHandler),
\* between with-blocks; inside a block the list changes only through the
\* library's own operations.
AddCustomHandler ==
    \E h \in Customs :
        /\ stack = <<>>
        /\ handlers' = AddHandler(handlers, h)
        /\ last' = Op("addHandler", NoScope, FALSE)
        /\ UNCHANGED <<default_handler, level, propagate, created, resets,
                       stack, env>>

RemoveCustomHandler ==
    \E h \in Customs :
        /\ stack = <<>>
        /\ handlers' = RemoveHandler(handlers, h)
        /\ last' = Op("removeHandler", NoScope, FALSE)
        /\ UNCHANGED <<default_handler, level, propagate, created, resets,
                       stack, env>>

\* with catch_default_handler(): ...
EnterDefault ==
    /\ MayConfigure
    /\ Len(stack) < MaxDepth
    /\ LET st == catch_default_enter(Registry, parent_has)
           scope == [kind |-> "default", handlers |-> <<>>,
                     null_handler |-> ClassNull,
                     pre |-> handlers, post |-> st.handlers,
                     slot |-> default_handler, nested |-> FALSE]
       IN  /\ Store(st)
           /\ stack' = Append(stack, scope)
           /\ last' = Op("enter_default", scope, FALSE)
    /\ UNCHANGED <<resets, env>>

\* The block ends, normally (exc = FALSE) or by raising (exc = TRUE); __exit__
\* runs either way and returns None.
ExitDefault ==
    /\ stack # <<>>
    /\ stack[Len(stack)].kind = "default"
    /\ \E exc \in BOOLEAN :
        /\ Store(catch_default_exit(Registry))
        /\ last' = [Op("exit_default", stack[Len(stack)], exc) EXCEPT
                       !.raised = exc /\ ~Suppressed(exit_returns("default"))]
    /\ stack' = SubSeq(stack, 1, Len(stack) - 1)
    /\ UNCHANGED <<resets, env>>

\* Notes on the enclosing block that a catch_all_handler block began inside it.
MarkNested(stk) ==
    IF stk # <<>> /\ stk[Len(stk)].kind = "all"
    THEN [stk EXCEPT ![Len(stk)].nested = TRUE]
    ELSE stk

\* with catch_all_handler(): ...
EnterAll ==
    /\ MayConfigure
    /\ Len(stack) < MaxDepth
    /\ LET null == InstNull(Len(stack) + 1)
           st == catch_all_enter(Registry, null)
           scope == [kind |-> "all", handlers |-> catch_all_snapshot(Registry),
                     null_handler |-> null,
                     pre |-> handlers, post |-> st.handlers,
                     slot |-> default_handler, nested |-> FALSE]
       IN  /\ Store(st)
           /\ stack' = Append(MarkNested(stack), scope)
           /\ last' = Op("enter_all", scope, FALSE)
    /\ UNCHANGED <<resets, env>>

ExitAll ==
    /\ stack # <<>>
    /\ stack[Len(stack)].kind = "all"
    /\ \E exc \in BOOLEAN :
        /\ Store(catch_all_exit(Registry, stack[Len(stack)]))
        /\ last' = [Op("exit_all", stack[Len(stack)], exc) EXCEPT
                       !.raised = exc /\ ~Suppressed(exit_returns("all"))]
    /\ stack' = SubSeq(stack, 1, Len(stack) - 1)
    /\ UNCHANGED <<resets, env>>

Next ==
    \/ GetLibraryRootLogger
    \/ EnableDefaultHandler
    \/ DisableDefaultHandler
    \/ ResetLibraryRootLogger
    \/ AddCustomHandler
    \/ RemoveCustomHandler
    \/ EnterDefault
    \/ ExitDefault
    \/ EnterAll
    \/ ExitAll

Spec == Init /\ [][Next]_vars

\* ------------------------------------------------- child loggers, records
\* Names a caller may pass to get_child_logger: a module of the library, the
\* entry script, the bare library name, a name that only shares the prefix,
\* a foreign module, the empty string.
Names ==
    { <<LibraryName, ".", "example">>,
      <<"__main__">>,
      <<LibraryName>>,
      <<LibraryName, "x", ".", "example">>,
      <<"other", ".", "example">>,
      <<>> }

\* The handler the caller creates for one logger (tutorial, lines 164-165).
OwnHandler(path) == <<"own", path>>

\* The propagate argument of a call: left out, True or False; the parameter
\* defaults to True (line 338).
PropArgs == {"omitted", "True", "False"}

PropagateOf(arg) == arg # "False"

\* The propagate flag of the logger at path, as text; "absent" while the
\* backend has not created the logger.
FlagAt(lgs, path) ==
    IF path \notin DOMAIN lgs THEN "absent"
    ELSE IF lgs[path].propagate THEN "True" ELSE "False"

\* get_child_logger(name, propagate) for a name of the set names and an
\* argument of the set args: the root logger is configured first (line 382),
\* then the name is resolved; an invalid name raises ValueError (line 390).
GetChildLoggerOf(names, args) ==
    /\ MayConfigure
    /\ \E name \in names, arg \in args :
        /\ Store(get_library_root_logger(Registry))
        /\ loggers' = get_child_logger(loggers, name, PropagateOf(arg))
        /\ last' = [Op("get_child_logger", NoScope, ChildPath(name) = None)
                        EXCEPT !.logger = name,
                               !.arg = arg,
                               !.old = FlagAt(loggers, ChildPath(name)),
                               !.path = ChildPath(name)]
    /\ UNCHANGED <<resets, parent_has, formatting, stack, threads>>

GetChildLogger == GetChildLoggerOf(Names, {"True", "False"})

\* logger.addHandler(custom_handler) on a child logger (tutorial, line 165)
ChildAddHandler ==
    \E path \in DOMAIN loggers :
        /\ loggers' = [loggers EXCEPT
                          ![path].handlers = AddHandler(@, OwnHandler(path))]
        /\ last' = [Op("child_addHandler", NoScope, FALSE) EXCEPT !.logger = path]
        /\ UNCHANGED <<default_handler, handlers, level, propagate, created,
                       resets, parent_has, formatting, stack, threads>>

\* logger.info(...) / logger.warning(...) on the root logger or on a child
\* logger (tutorial, lines 172-173): a record the logger is enabled for is
\* handed to callHandlers.
Log ==
    \E path \in DOMAIN loggers \cup {<<LibraryName>>}, lvl \in {INFO, WARNING} :
        /\ default_handler # None
        /\ last' = [Op("log", NoScope, FALSE) EXCEPT
                       !.logger = path,
                       !.sinks = IF isEnabledFor(Registry, lvl)
                                 THEN callHandlers(Registry, parent_has,
                                                   loggers, path)
                                 ELSE {}]
        /\ UNCHANGED <<default_handler, handlers, level, propagate, created,
                       resets, parent_has, formatting, stack, threads, loggers>>

NextChild ==
    \/ GetLibraryRootLogger
    \/ EnableDefaultHandler
    \/ DisableDefaultHandler
    \/ GetChildLogger
    \/ ChildAddHandler
    \/ EnterAll
    \/ ExitAll
    \/ Log

SpecChild == Init /\ [][NextChild]_vars

\* ------------------------------------------------------- name resolution
\* Further names a caller may pass: the library name and the separator with
\* nothing behind it, modules and submodules of the library, names with a
\* line break in them, and names that carry the library name or "__main__"
\* somewhere else than the pattern expects.
ResolveNames ==
    Names \cup
    { <<LibraryName, ".">>,
      <<LibraryName, ".", "sub">>,
      <<LibraryName, ".", "utils", ".", "_utils">>,
      <<LibraryName, ".", "__main__">>,
      <<LibraryName, ".", "a", "\n", "b">>,
      <<LibraryName, ".", "\n", "a">>,
      <<"other", ".", LibraryName, ".", "a">>,
      <<"__main__", ".", "a">> }

ResolveChildLogger == GetChildLoggerOf(ResolveNames, PropArgs)

\* The caller assigns the propagate attribute of a logger it was handed
\* (the object returned at line 393).
SetChildPropagate ==
    \E path \in DOMAIN loggers, flag \in BOOLEAN :
        /\ loggers' = [loggers EXCEPT ![path].propagate = flag]
        /\ last' = [Op("child_setPropagate", NoScope, FALSE)
                        EXCEPT !.logger = path]
        /\ UNCHANGED <<default_handler, handlers, level, propagate, created,
                       resets, parent_has, formatting, stack, threads>>

NextResolve ==
    \/ GetLibraryRootLogger
    \/ ResolveChildLogger
    \/ SetChildPropagate

SpecResolve == Init /\ [][NextResolve]_vars

\* ------------------------------------------------- handlers and formatters
\* The caller constructs a handler.
ConstructHandler ==
    \E obj \in HandlerObjects :
        /\ handler' = Fresh(obj)
        /\ last' = Op("construct", NoScope, FALSE)
        /\ UNCHANGED <<default_handler, handlers, level, propagate, created,
                       resets, parent_has, stack, threads, loggers, environ>>

\* The level argument of get_handler: left out, or a level; the parameter
\* defaults to NOTSET (line 159).
LevelArgs == {<<>>} \cup {<<l>> : l \in {NOTSET, INFO, WARNING}}

LevelOf(arg) == IF arg = <<>> THEN NOTSET ELSE arg[1]

\* The formatter argument: None (the default, line 158) or a formatter of
\* the caller's.
FormatterArgs == {"None", "custom"}

\* get_handler(handler, formatter, level) on the caller's handler
GetHandler ==
    \E formatter \in FormatterArgs, arg \in LevelArgs :
        LET r == get_handler(handler, formatter, LevelOf(arg), environ)
        IN  /\ handler' = r.handler
            /\ last' = [Op("get_handler", NoScope, FALSE) EXCEPT
                           !.call = [NoCall EXCEPT
                               !.formatter = formatter,
                               !.level = arg,
                               !.before = handler,
                               !.returned = r.returned,
                               !.repeat = /\ last.op = "get_handler"
                                          /\ last.call.formatter = formatter
                                          /\ last.call.level = arg]]
            /\ UNCHANGED <<default_handler, handlers, level, propagate,
                           created, resets, parent_has, stack, threads,
                           loggers, environ>>

\* create_default_formatter(use_color)
CreateDefaultFormatter ==
    \E use_color \in {"None", "True", "False"} :
        /\ last' = [Op("create_default_formatter", NoScope, FALSE) EXCEPT
                       !.call = [NoCall EXCEPT
                           !.use_color = use_color,
                           !.result = create_default_formatter(use_color,
                                                               environ)]]
        /\ UNCHANGED <<default_handler, handlers, level, propagate, created,
                       resets, parent_has, stack, threads, loggers,
                       formatting>>

\* The calls are followed in every environment.
InitFormat ==
    /\ InitRegistry
    /\ environ \in Environs
    /\ handler = Fresh([class |-> "StreamHandler", stream |-> "stderr"])

NextFormat ==
    \/ GetLibraryRootLogger
    \/ DisableDefaultHandler
    \/ ConstructHandler
    \/ GetHandler
    \/ CreateDefaultFormatter

SpecFormat == InitFormat /\ [][NextFormat]_vars

\* ------------------------------------------- the caller's own settings
\* root_logger.setLevel(DEBUG) on the logger get_library_root_logger returned
\* (tutorial, lines 226-229), or another level.
RootSetLevel ==
    \E lvl \in {DEBUG, WARNING} :
        /\ default_handler # None
        /\ level' = lvl
        /\ last' = Op("setLevel", NoScope, FALSE)
        /\ UNCHANGED <<default_handler, handlers, propagate, created, resets,
                       stack, env>>

\* The caller assigns the propagate attribute of the returned root logger.
RootSetPropagate ==
    \E flag \in BOOLEAN :
        /\ default_handler # None
        /\ propagate' = flag
        /\ last' = Op("setPropagate", NoScope, FALSE)
        /\ UNCHANGED <<default_handler, handlers, level, created, resets,
                       stack, env>>

\* The application attaches a handler to the logging backend's root logger
\* (the parent of the library root logger), or detaches the last one.
BackendHandlers ==
    \E has \in BOOLEAN :
        /\ parent_has' = has
        /\ last' = Op("backend", NoScope, FALSE)
        /\ UNCHANGED <<default_handler, handlers, level, propagate, created,
                       resets, stack, threads, loggers, formatting>>

NextFrame ==
    \/ GetLibraryRootLogger
    \/ EnableDefaultHandler
    \/ DisableDefaultHandler
    \/ GetChildLogger
    \/ RootSetLevel
    \/ RootSetPropagate

SpecFrame == Init /\ [][NextFrame]_vars

\* catch_default_handler blocks with handlers of the caller's on the root
\* logger, the caller's propagate flag and handlers on the backend's root.
NextPlaceholder ==
    \/ DisableDefaultHandler
    \/ RootSetPropagate
    \/ BackendHandlers
    \/ AddCustomHandler
    \/ RemoveCustomHandler
    \/ EnterDefault
    \/ ExitDefault

SpecPlaceholder == Init /\ [][NextPlaceholder]_vars

\* ------------------------------------------------------- concurrent calls
\* Several threads call into the module at once.  Nothing in _logging.py takes
\* a lock, so a thread switch may fall between any two statements of
\* _configure_library_root_logger and between evaluating a right-hand side or
\* an argument and using it; Logger.addHandler itself is atomic (the backend
\* locks it).
\*   pc    the statement the thread executes next
\*   op    the public function it called
\*   mine  the handler its own _create_default_handler() call returned
\*   arg   the value of _default_handler it loaded as the next call's argument
\*   nested  how often _configure_library_root_logger was entered from
\*           inside itself (through line 268) during the call
\*   steps   how many statements the call has executed
Goto(t, where) ==
    threads' = [threads EXCEPT ![t].pc = where, ![t].steps = @ + 1]

\* A thread calls get_library_root_logger() or enable_default_handler();
\* either begins with _configure_library_root_logger (lines 333, 416).
Call(t) ==
    /\ threads[t].pc = "idle"
    /\ \E f \in {"get_library_root_logger", "enable_default_handler"} :
        threads' = [threads EXCEPT ![t].pc = "check", ![t].op = f,
                                   ![t].steps = @ + 1]
    /\ UNCHANGED <<default_handler, handlers, level, propagate, created,
                   resets, parent_has, formatting, stack, last, loggers>>

\* line 261: if _default_handler: return
Check(t) ==
    /\ threads[t].pc = "check"
    /\ Goto(t, IF default_handler # None THEN "configured" ELSE "create")
    /\ UNCHANGED <<default_handler, handlers, level, propagate, created,
                   resets, parent_has, formatting, stack, last, loggers>>

\* line 265, right-hand side: _create_default_handler()
Create(t) ==
    /\ threads[t].pc = "create"
    /\ created' = created + 1
    /\ threads' = [threads EXCEPT ![t].pc = "assign",
                                  ![t].mine = DefaultH(created + 1),
                                  ![t].steps = @ + 1]
    /\ UNCHANGED <<default_handler, handlers, level, propagate,
                   resets, parent_has, formatting, stack, last, loggers>>

\* Variant: the global is not stored before line 268 calls
\* get_library_root_logger().
AssignLater(t) ==
    /\ threads[t].pc = "assign"
    /\ Goto(t, "inner")
    /\ UNCHANGED <<default_handler, handlers, level, propagate, created,
                   resets, parent_has, formatting, stack, last, loggers>>

\* line 265, the store to the global
Assign(t) ==
    /\ threads[t].pc = "assign"
    /\ default_handler' = threads[t].mine
    /\ Goto(t, "inner")
    /\ UNCHANGED <<handlers, level, propagate, created,
                   resets, parent_has, formatting, stack, last, loggers>>

\* line 268: get_library_root_logger(), whose nested
\* _configure_library_root_logger finds the global set and returns
Inner(t) ==
    /\ threads[t].pc = "inner"
    /\ threads' = [threads EXCEPT
                      ![t].pc = IF default_handler # None THEN "load"
                                ELSE "create",
                      ![t].nested = @ + 1,
                      ![t].steps = @ + 1]
    /\ UNCHANGED <<default_handler, handlers, level, propagate, created,
                   resets, parent_has, formatting, stack, last, loggers>>

\* line 269, the argument: the global _default_handler as it is now
Load(t) ==
    /\ threads[t].pc = "load"
    /\ threads' = [threads EXCEPT ![t].pc = "attach",
                                  ![t].arg = default_handler,
                                  ![t].steps = @ + 1]
    /\ UNCHANGED <<default_handler, handlers, level, propagate, created,
                   resets, parent_has, formatting, stack, last, loggers>>

\* line 269: library_root_logger.addHandler(...)
Attach(t) ==
    /\ threads[t].pc = "attach"
    /\ handlers' = AddHandler(handlers, threads[t].arg)
    /\ Goto(t, "level")
    /\ UNCHANGED <<default_handler, level, propagate, created,
                   resets, parent_has, formatting, stack, last, loggers>>

\* line 270: library_root_logger.setLevel(INFO)
SetLevel(t) ==
    /\ threads[t].pc = "level"
    /\ level' = INFO
    /\ Goto(t, "propagate")
    /\ UNCHANGED <<default_handler, handlers, propagate, created,
                   resets, parent_has, formatting, stack, last, loggers>>

\* line 271: library_root_logger.propagate = False
SetPropagate(t) ==
    /\ threads[t].pc = "propagate"
    /\ propagate' = FALSE
    /\ Goto(t, "configured")
    /\ UNCHANGED <<default_handler, handlers, level, created,
                   resets, parent_has, formatting, stack, last, loggers>>

\* _configure_library_root_logger has returned.  get_library_root_logger is
\* finished (line 335); enable_default_handler goes on to lines 418-419,
\* whose get_library_root_logger() call finds the global set, and loads the
\* global as the argument of addHandler.
Configured(t) ==
    /\ threads[t].pc = "configured"
    /\ IF threads[t].op = "enable_default_handler"
       THEN threads' = [threads EXCEPT ![t].pc = "enable",
                                      ![t].arg = default_handler,
                                      ![t].steps = @ + 1]
       ELSE Goto(t, "done")
    /\ UNCHANGED <<default_handler, handlers, level, propagate, created,
                   resets, parent_has, formatting, stack, last, loggers>>

\* line 419: get_library_root_logger().addHandler(_default_handler)
Enable(t) ==
    /\ threads[t].pc = "enable"
    /\ handlers' = AddHandler(handlers, threads[t].arg)
    /\ Goto(t, "done")
    /\ UNCHANGED <<default_handler, level, propagate, created,
                   resets, parent_has, formatting, stack, last, loggers>>

NextThreads ==
    \E t \in Threads :
        \/ Call(t)
        \/ Check(t)
        \/ Create(t)
        \/ Assign(t)
        \/ Inner(t)
        \/ Load(t)
        \/ Attach(t)
        \/ SetLevel(t)
        \/ SetPropagate(t)
        \/ Configured(t)
        \/ Enable(t)

SpecThreads == Init /\ [][NextThreads]_vars

\* ----------------------------------------------------- overlapping blocks
\* Two threads each run "with catch_all_handler(): ..." on the configured
\* root logger.  Every statement of __enter__ and __exit__ is a step of its
\* own, each turn of the two for loops included; Logger.addHandler and
\* Logger.removeHandler are single steps.  Further fields of a thread:
\*   saved   self.handlers, the copy taken at line 531
\*   todo    what the running for loop has still to visit
\*   mine    self.null_handler
\*   first   whether no other thread had begun when this one did
\*   before  the root logger's handler list when the first thread began
ScopeThreads == {1, 2}

\* Before any thread begins, the caller configures the root logger and
\* attaches handlers of its own.
Prepare ==
    /\ \A t \in Threads : threads[t].pc = "idle"
    /\ \/ GetLibraryRootLogger
       \/ AddCustomHandler

\* line 530: self.root_logger = get_library_root_logger(), slot already set
ScopeBegin(t) ==
    /\ threads[t].pc = "idle"
    /\ default_handler # None
    /\ LET alone == \A u \in Threads : threads[u].pc = "idle"
       IN  threads' = [threads EXCEPT
                          ![t].pc = "snapshot",
                          ![t].op = "catch_all_handler",
                          ![t].first = alone,
                          ![t].before = IF alone THEN handlers ELSE <<>>]
    /\ UNCHANGED <<default_handler, handlers, level, propagate, created,
                   resets, parent_has, formatting, stack, last, loggers>>

\* lines 531-532: the copy of the handler list, and a new NullHandler
Snapshot(t) ==
    /\ threads[t].pc = "snapshot"
    /\ threads' = [threads EXCEPT ![t].pc = "detach",
                                  ![t].saved = handlers,
                                  ![t].todo = handlers,
                                  ![t].mine = InstNull(t)]
    /\ UNCHANGED <<default_handler, handlers, level, propagate, created,
                   resets, parent_has, formatting, stack, last, loggers>>

\* lines 534-535: one turn of the loop, removeHandler(handler)
Detach(t) ==
    /\ threads[t].pc = "detach"
    /\ threads[t].todo # <<>>
    /\ handlers' = RemoveHandler(handlers, Head(threads[t].todo))
    /\ threads' = [threads EXCEPT ![t].todo = Tail(@)]
    /\ UNCHANGED <<default_handler, level, propagate, created,
                   resets, parent_has, formatting, stack, last, loggers>>

\* lines 536-537: the loop is over, addHandler(self.null_handler); the block
\* begins
Placeholder(t) ==
    /\ threads[t].pc = "detach"
    /\ threads[t].todo = <<>>
    /\ handlers' = AddHandler(handlers, threads[t].mine)
    /\ threads' = [threads EXCEPT ![t].pc = "inside"]
    /\ UNCHANGED <<default_handler, level, propagate, created,
                   resets, parent_has, formatting, stack, last, loggers>>

\* The block ends and __exit__ begins its loop over self.handlers (line 562).
Leave(t) ==
    /\ threads[t].pc = "inside"
    /\ threads' = [threads EXCEPT ![t].pc = "reattach",
                                  ![t].todo = threads[t].saved]
    /\ UNCHANGED <<default_handler, handlers, level, propagate, created,
                   resets, parent_has, formatting, stack, last, loggers>>

\* lines 562-563: one turn of the loop, addHandler(handler)
Reattach(t) ==
    /\ threads[t].pc = "reattach"
    /\ threads[t].todo # <<>>
    /\ handlers' = AddHandler(handlers, Head(threads[t].todo))
    /\ threads' = [threads EXCEPT ![t].todo = Tail(@)]
    /\ UNCHANGED <<default_handler, level, propagate, created,
                   resets, parent_has, formatting, stack, last, loggers>>

\* Variant: __exit__ ends by putting the saved copy in place of the root
\* logger's handler list.
ReleaseByAssignment(t) ==
    /\ threads[t].pc = "reattach"
    /\ threads[t].todo = <<>>
    /\ handlers' = threads[t].saved
    /\ threads' = [threads EXCEPT ![t].pc = "done"]
    /\ UNCHANGED <<default_handler, level, propagate, created,
                   resets, parent_has, formatting, stack, last, loggers>>

\* lines 564-565: the loop is over, removeHandler(self.null_handler)
Release(t) ==
    /\ threads[t].pc = "reattach"
    /\ threads[t].todo = <<>>
    /\ handlers' = RemoveHandler(handlers, threads[t].mine)
    /\ threads' = [threads EXCEPT ![t].pc = "done"]
    /\ UNCHANGED <<default_handler, level, propagate, created,
                   resets, parent_has, formatting, stack, last, loggers>>

NextScopes ==
    \/ Prepare
    \/ \E t \in ScopeThreads :
        \/ ScopeBegin(t)
        \/ Snapshot(t)
        \/ Detach(t)
        \/ Placeholder(t)
        \/ Leave(t)
        \/ Reattach(t)
        \/ Release(t)

SpecScopes == Init /\ [][NextScopes]_vars

\* ------------------------------------------------------------- properties
Top == stack[Len(stack)]

\* The block that just ended saw the handler list it had produced at entry:
\* nothing inside it changed the list, or every change was undone.
Untouched == last.pre = last.scope.post

\* C1: after _reset_library_root_logger() returns from a Configured state, the
\* slot holds a handler, that handler is attached to the root logger, it is
\* the only handler attached, and none of the handlers attached before the
\* reset is still attached.
C1_ResetReconfigures ==
    (last.op = "reset" /\ last.slot # None) =>
        /\ default_handler # None
        /\ handlers = <<default_handler>>
        /\ Range(handlers) \cap Range(last.pre) = {}

\* C2: when every thread has finished its first call, made concurrently from
\* the Unconfigured state, exactly one default handler has been created and
\* exactly one handler is attached to the root logger, the one in the slot.
C2_OneHandlerUnderRace ==
    (\A t \in Threads : threads[t].pc = "done") =>
        /\ created = 1
        /\ Len(handlers) = 1
        /\ handlers = <<default_handler>>

\* C3: as long as no reset has run, at most one default handler has been
\* created: the slot is empty exactly until the first creation and from then
\* on holds that one handler, whatever public operations follow.
C3_OneDefaultHandler ==
    resets = 0 =>
        /\ created <= 1
        /\ (created = 0 <=> default_handler = None)
        /\ (created = 1 <=> default_handler = DefaultH(1))

C3_Witness ==
    /\ resets = 0
    /\ last.op = "exit_default"
    /\ last.slot = DefaultH(1)
    /\ default_handler = DefaultH(1)

\* C4: right after __enter__ or __exit__ of any catch_default_handler block
\* that leaves a catch_default_handler block active, the default handler is
\* not attached to the root logger.
C4_DefaultSuppressed ==
    (/\ last.op \in {"enter_default", "exit_default"}
     /\ \E i \in 1..Len(stack) : stack[i].kind = "default") =>
        default_handler \notin Range(handlers)

\* C5: while the innermost live block is a catch_all_handler block and the
\* root logger's list is as that block left it, a record logged through the
\* root logger or through any child logger reaches no handler other than a
\* NullHandler placeholder.
C5_AllSuppressed ==
    (/\ last.op = "log"
     /\ stack # <<>>
     /\ Top.kind = "all"
     /\ handlers = Top.post) =>
        \A h \in last.sinks : h[1] = "NullHandler"

\* C6: after a catch_default_handler block entered in a Configured state
\* exits, the root logger's handlers are the same set as just before
\* __enter__, and the placeholder is not among them.
C6_DefaultScopeRestores ==
    (last.op = "exit_default" /\ last.scope.slot # None /\ Untouched) =>
        /\ Range(handlers) = Range(last.scope.pre)
        /\ ClassNull \notin Range(handlers)

\* C7: after a catch_all_handler block whose body left the handler list alone
\* exits, normally or by raising, the root logger's handler list is the list
\* captured at entry, in the same order and without the placeholder; in a
\* Configured state that is the list from just before __enter__.
C7_AllScopeRestores ==
    (last.op = "exit_all" /\ Untouched) =>
        /\ handlers = last.scope.handlers
        /\ last.scope.null_handler \notin Range(handlers)
        /\ (last.scope.slot # None => handlers = last.scope.pre)

C7_Witness ==
    /\ last.op = "exit_all"
    /\ Untouched
    /\ last.exc
    /\ handlers = <<CustomH(1), DefaultH(1)>>

\* C8: when a catch_all_handler block ends directly inside another one that
\* it found in its suppressed state, the handler list is again just the outer
\* block's placeholder, with none of the handlers the outer block captured;
\* and when an outer block that had such a block inside it ends, the list is
\* the one the outer block captured.
C8_NestedAllScopes ==
    /\ (/\ last.op = "exit_all"
        /\ Untouched
        /\ stack # <<>>
        /\ Top.kind = "all"
        /\ last.scope.pre = Top.post) =>
            /\ handlers = <<Top.null_handler>>
            /\ Range(handlers) \cap Range(Top.handlers) = {}
    /\ (/\ last.op = "exit_all"
        /\ Untouched
        /\ last.scope.nested) =>
            handlers = last.scope.handlers

C8_Witness ==
    /\ last.op = "exit_all"
    /\ Untouched
    /\ last.scope.nested
    /\ stack = <<>>
    /\ handlers = <<DefaultH(1), CustomH(1)>>

\* C9 as stated: disable_default_handler() followed at once by
\* enable_default_handler() leaves the root logger's handlers with the same
\* members and the same count as before the disable call, from every
\* Configured state, the default handler attached or already disabled.
C9_RoundTripAnyState ==
    (last.after_disable /\ last.slot0 # None) =>
        /\ Range(handlers) = Range(last.pre0)
        /\ Len(handlers) = Len(last.pre0)

\* C9 amended: the round trip restores members and count when the default
\* handler was attached before the disable call; when it was not (already
\* disabled, or not yet configured) the round trip appends it.
C9_RoundTripWhenAttached ==
    last.after_disable =>
        IF default_handler \in Range(last.pre0)
        THEN /\ Range(handlers) = Range(last.pre0)
             /\ Len(handlers) = Len(last.pre0)
        ELSE handlers = Append(last.pre0, default_handler)

C9_Witness ==
    /\ last.after_disable
    /\ last.pre0 = <<DefaultH(1), CustomH(1)>>
    /\ handlers = <<CustomH(1), DefaultH(1)>>

\* C10: the first get_library_root_logger() call, made while the slot is
\* empty and the root logger has no handlers, leaves exactly the new default
\* handler attached, level INFO and propagate false.
C10_FirstAccess ==
    (last.op = "get_library_root_logger" /\ last.slot = None /\ last.pre = <<>>) =>
        /\ default_handler # None
        /\ handlers = <<default_handler>>
        /\ level = INFO
        /\ propagate = FALSE

C10_Witness ==
    /\ last.op = "get_library_root_logger"
    /\ last.slot = None
    /\ last.pre = <<>>
    /\ created = 1

\* How often handler h occurs in the list hs.
Occurrences(hs, h) == Cardinality({i \in 1..Len(hs) : hs[i] = h})

\* hs without every occurrence of h, the order of the rest kept.
Without(hs, h) == SelectSeq(hs, LAMBDA x : x # h)

\* C11: in every reachable state the default handler occurs at most once in
\* the library root logger's handler list, and enable_default_handler called
\* while the handler is already attached leaves the list unchanged.
C11_AttachedAtMostOnce ==
    /\ Occurrences(handlers, default_handler) <= 1
    /\ (last.op = "enable_default_handler" /\ last.slot \in Range(last.pre))
          => handlers = last.pre

\* enable_default_handler was called with the handler attached among others.
C11_Witness ==
    /\ last.op = "enable_default_handler"
    /\ last.slot # None
    /\ last.slot \in Range(last.pre)
    /\ Len(last.pre) >= 2
    /\ handlers = last.pre

\* C12: disable_default_handler removes exactly the default handler: after it
\* the handler is not attached, every other handler is still attached in the
\* same relative order, the slot holds the same handler, no error is raised,
\* and a call made while the handler is absent changes nothing.
C12_DisableRemovesOnlyDefault ==
    (last.op = "disable_default_handler" /\ last.slot # None) =>
        /\ ~last.exc
        /\ default_handler = last.slot
        /\ default_handler \notin Range(handlers)
        /\ handlers = Without(last.pre, last.slot)
        /\ last.slot \notin Range(last.pre) => handlers = last.pre

\* disable_default_handler took the default handler out from between two
\* handlers of the caller.
C12_Witness ==
    /\ last.op = "disable_default_handler"
    /\ last.slot # None
    /\ Len(last.pre) = 3
    /\ last.pre[2] = last.slot
    /\ handlers = <<last.pre[1], last.pre[3]>>

\* C13 as stated: get_child_logger(name) succeeds exactly when the name
\* starts with the library name followed by the separator, or is "__main__";
\* every other name raises ValueError.
C13_SucceedsOnPrefix ==
    last.op = "get_child_logger" =>
        (~last.exc <=>
            \/ /\ Len(last.logger) >= 2
               /\ last.logger[1] = LibraryName
               /\ last.logger[2] = "."
            \/ last.logger = <<"__main__">>)

\* C13, amended: get_child_logger(name) succeeds exactly when the name is
\* the library name, the separator and at least one further character that
\* is not a line break, or is "__main__"; every other name raises ValueError.
C13_SucceedsOnSuffix ==
    last.op = "get_child_logger" =>
        (~last.exc <=>
            \/ /\ Len(last.logger) >= 3
               /\ last.logger[1] = LibraryName
               /\ last.logger[2] = "."
               /\ last.logger[3] # "\n"
            \/ last.logger = <<"__main__">>)

\* get_child_logger raised ValueError for the library name followed by the
\* separator alone.
C13_Witness ==
    /\ last.op = "get_child_logger"
    /\ last.logger = <<LibraryName, ".">>
    /\ last.exc
    /\ last.path = None

\* C14: for every name get_child_logger accepts, the returned logger is the
\* one whose path is the name itself ("<lib>.<suffix>"), and for "__main__"
\* the one at "<lib>.__main__", whatever the propagate argument and whatever
\* was called before.
C14_PathIsName ==
    (last.op = "get_child_logger" /\ ~last.exc) =>
        /\ last.path \in DOMAIN loggers
        /\ last.path = IF last.logger = <<"__main__">>
                       THEN <<LibraryName, ".", "__main__">>
                       ELSE last.logger

\* C15 as stated: get_child_logger("<lib>.sub") with propagate left out
\* returns the logger at "<lib>.root.sub", with propagate set.
C15_PathBelowRootNode ==
    (/\ last.op = "get_child_logger"
     /\ last.logger = <<LibraryName, ".", "sub">>
     /\ last.arg = "omitted") =>
        /\ last.path = <<LibraryName, ".", "root", ".", "sub">>
        /\ last.path \in DOMAIN loggers
        /\ loggers[last.path].propagate

\* C15, amended: get_child_logger("<lib>.sub") with propagate left out
\* returns the logger at "<lib>.sub", the child "sub" directly beneath the
\* library root logger, with propagate set.
C15_PathBelowLibraryRoot ==
    (/\ last.op = "get_child_logger"
     /\ last.logger = <<LibraryName, ".", "sub">>
     /\ last.arg = "omitted") =>
        /\ ~last.exc
        /\ last.path = <<LibraryName, ".", "sub">>
        /\ last.path \in DOMAIN loggers
        /\ loggers[last.path].propagate

\* get_child_logger("<lib>.sub") was called with propagate left out.
C15_Witness ==
    /\ last.op = "get_child_logger"
    /\ last.logger = <<LibraryName, ".", "sub">>
    /\ last.arg = "omitted"
    /\ <<LibraryName, ".", "sub">> \in DOMAIN loggers

\* C16: after every successful get_child_logger call the logger's propagate
\* flag is the argument of that call (True when it is left out), whatever an
\* earlier call or the caller had set.
C16_LastCallWins ==
    (last.op = "get_child_logger" /\ ~last.exc) =>
        loggers[last.path].propagate = PropagateOf(last.arg)

\* A call that leaves propagate out found the flag cleared and set it.
C16_Witness ==
    /\ last.op = "get_child_logger"
    /\ ~last.exc
    /\ last.arg = "omitted"
    /\ last.old = "False"
    /\ loggers[last.path].propagate

\* C17: neither context manager swallows an error: when the block raises,
\* __exit__ still runs its restore step (the default handler is attached
\* again and the shared placeholder is off; the snapshot is attached again
\* and the block's placeholder is off) and the error leaves the with
\* statement.
C17_ErrorsPropagate ==
    /\ (last.op = "exit_default" /\ last.exc) =>
          /\ last.raised
          /\ default_handler # None
          /\ default_handler \in Range(handlers)
          /\ ClassNull \notin Range(handlers)
    /\ (last.op = "exit_all" /\ last.exc) =>
          /\ last.raised
          /\ Range(last.scope.handlers) \subseteq Range(handlers)
          /\ last.scope.null_handler \notin Range(handlers)

\* A catch_all_handler block that had detached handlers ended by raising.
C17_Witness ==
    /\ last.op = "exit_all"
    /\ last.exc
    /\ last.raised
    /\ last.scope.handlers # <<>>
    /\ last.scope.null_handler \in Range(last.pre)

\* C18: get_handler called without a formatter gives the handler the colour
\* formatter iff the handler is not file-backed and the colour probe
\* succeeds, so a file-backed handler gets the plain formatter whatever the
\* probe says; create_default_formatter(use_color) returns the colour
\* formatter iff use_color is not False and the probe succeeds.
C18_FormatterSelection ==
    /\ (last.op = "get_handler" /\ last.call.formatter = "None") =>
          /\ handler.formatter \in {"ColoredFormatter", "Formatter"}
          /\ handler.formatter = "ColoredFormatter" <=>
                (~is_file_handler(handler.obj) /\ color_supported(environ))
    /\ last.op = "create_default_formatter" =>
          /\ last.call.result \in {"ColoredFormatter", "Formatter"}
          /\ last.call.result = "ColoredFormatter" <=>
                (last.call.use_color # "False" /\ color_supported(environ))

\* A file-backed handler was given the plain formatter although the probe
\* succeeds.
C18_Witness ==
    /\ last.op = "get_handler"
    /\ last.call.formatter = "None"
    /\ handler.obj.class = "RotatingFileHandler"
    /\ color_supported(environ)
    /\ handler.formatter = "Formatter"

\* C19: get_handler called without a formatter on a handler that is not
\* file-backed and whose own stream is not a terminal gives it the plain
\* formatter, whatever standard error is.
C19_ProbeOnOwnStream ==
    (/\ last.op = "get_handler"
     /\ last.call.formatter = "None"
     /\ ~is_file_handler(handler.obj)
     /\ ~OwnStreamIsTerminal(handler.obj, environ)) =>
        handler.formatter = "Formatter"

\* C20: get_handler changes the handler it is given and returns that same
\* object, with the level of the call (NOTSET when left out) and, when a
\* formatter is given, that formatter; a second call with the same arguments
\* leaves the handler as the first did; the default-handler slot and the
\* root logger's handler list are as before the call.
C20_GetHandlerInPlace ==
    last.op = "get_handler" =>
        /\ last.call.returned = last.call.before.obj
        /\ handler.obj = last.call.before.obj
        /\ handler.level = IF last.call.level = <<>> THEN NOTSET
                           ELSE last.call.level[1]
        /\ last.call.formatter # "None" =>
              handler.formatter = last.call.formatter
        /\ last.call.repeat => handler = last.call.before
        /\ default_handler = last.slot
        /\ handlers = last.pre

\* get_handler was called a second time with the level left out on a handler
\* the first call had configured, while the default handler was attached.
C20_Witness ==
    /\ last.op = "get_handler"
    /\ last.call.repeat
    /\ last.call.level = <<>>
    /\ last.call.formatter = "None"
    /\ handler.formatter = "ColoredFormatter"
    /\ handler = last.call.before
    /\ default_handler \in Range(handlers)

\* C21: once the slot holds a handler, get_library_root_logger and
\* get_child_logger leave the registry alone: a default handler that
\* disable_default_handler removed stays off, and the level and the propagate
\* flag the caller gave the root logger stay as they were.
C21_ConfiguredIsLeftAlone ==
    (last.op \in {"get_library_root_logger", "get_child_logger"}
        /\ last.slot # None) =>
        /\ default_handler = last.slot
        /\ handlers = last.pre
        /\ level = last.level0
        /\ propagate = last.propagate0

\* get_child_logger ran while the default handler was detached and the
\* caller had changed the level and the propagate flag.
C21_Witness ==
    /\ last.op = "get_child_logger"
    /\ last.slot # None
    /\ last.slot \notin Range(last.pre)
    /\ default_handler \notin Range(handlers)
    /\ level = DEBUG
    /\ propagate

\* C22: while a catch_all_handler block is the innermost live block the root
\* logger's handler list is exactly that block's placeholder: right after
\* its __enter__, whatever the list was before, and again after a
\* catch_default_handler block that began directly inside it, and left the
\* list alone, has ended.
C22_OnlyPlaceholderInAllScope ==
    /\ last.op = "enter_all" => handlers = <<last.scope.null_handler>>
    /\ (/\ last.op = "exit_default"
        /\ Untouched
        /\ stack # <<>>
        /\ Top.kind = "all"
        /\ last.scope.pre = Top.post) =>
            handlers = <<Top.null_handler>>

\* C23 as stated: catch_default_handler.__enter__ attaches the placeholder
\* exactly when the root logger's own list is empty once the default handler
\* is disabled, whatever the propagate flag and the backend's handlers.
C23_PlaceholderIffOwnListEmpty ==
    last.op = "enter_default" =>
        LET own == Without(last.pre, default_handler)
        IN  handlers = IF own = <<>> THEN <<ClassNull>> ELSE own

\* C23, amended: __enter__ attaches the placeholder exactly when hasHandlers()
\* is false once the default handler is disabled: the root logger's own list
\* is empty and the root logger does not propagate or the backend's root
\* logger has no handlers.
C23_PlaceholderIffNoHandlers ==
    last.op = "enter_default" =>
        LET own == Without(last.pre, default_handler)
        IN  handlers = IF own = <<>> /\ ~(propagate /\ parent_has)
                       THEN <<ClassNull>> ELSE own

\* A block was entered with an empty own list while the root logger
\* propagates to a backend that has handlers: no placeholder was attached.
C23_Witness ==
    /\ last.op = "enter_default"
    /\ last.slot # None
    /\ propagate
    /\ parent_has
    /\ handlers = <<>>

\* The handlers of the list hs other than the default handler and the
\* placeholder of catch_default_handler, in list order.
CallerHandlers(hs) ==
    SelectSeq(hs, LAMBDA h : h # default_handler /\ h # ClassNull)

\* C24: a catch_default_handler block leaves the caller's handlers alone:
\* after __enter__ and after __exit__ the handlers on the root logger other
\* than the default handler and the placeholder are the ones there before
\* the step, in the same order, and after a block whose body left the list
\* alone they are the ones there before __enter__.
C24_CallerHandlersUntouched ==
    /\ last.op \in {"enter_default", "exit_default"} =>
          CallerHandlers(handlers) = CallerHandlers(last.pre)
    /\ (last.op = "exit_default" /\ Untouched) =>
          CallerHandlers(handlers) = CallerHandlers(last.scope.pre)

\* A block entered with the default handler between two handlers of the
\* caller's has ended.
C24_Witness ==
    /\ last.op = "exit_default"
    /\ Untouched
    /\ last.scope.pre = <<CustomH(1), DefaultH(1), CustomH(2)>>
    /\ last.pre = <<CustomH(1), CustomH(2)>>
    /\ handlers = <<CustomH(1), CustomH(2), DefaultH(1)>>

\* C25: after _reset_library_root_logger() the root logger is unconfigured:
\* it has no handlers, its level is NOTSET, and the slot is cleared.
C25_ResetUnconfigures ==
    (last.op = "reset" /\ last.slot # None) =>
        /\ handlers = <<>>
        /\ level = NOTSET
        /\ default_handler = None

\* C26: whenever no with-block is live, no NullHandler placeholder of any
\* block is attached to the root logger, however the blocks that have ended
\* were nested and whether they ended normally or by raising.
C26_NoPlaceholderLeft ==
    stack = <<>> =>
        \A i \in 1..Len(handlers) : handlers[i][1] # "NullHandler"

\* An outermost catch_all_handler block, in which the default handler had
\* been attached again next to the placeholder, ended by raising.
C26_Witness ==
    /\ last.op = "exit_all"
    /\ stack = <<>>
    /\ last.exc
    /\ last.pre = <<InstNull(1), DefaultH(1)>>
    /\ handlers = <<DefaultH(1)>>

\* C27: a get_child_logger call that raises ValueError has configured the
\* root logger first: made in the Unconfigured state it leaves the default
\* handler created, stored in the slot and attached, the level INFO and
\* propagate off; made in a Configured state it leaves the slot, the root
\* logger's handler list, level and propagate flag, and every child logger
\* as they were.
C27_ValidationAfterInit ==
    [][(last'.op = "get_child_logger" /\ last'.exc) =>
          /\ loggers' = loggers
          /\ default_handler = None =>
                /\ default_handler' = DefaultH(created + 1)
                /\ created' = created + 1
                /\ handlers' = Append(handlers, default_handler')
                /\ level' = INFO
                /\ propagate' = FALSE
          /\ default_handler # None =>
                UNCHANGED <<default_handler, handlers, level, propagate,
                            created>>]_vars

\* The first call into the library was a get_child_logger call with the
\* bare library name: it raised and left the root logger configured.
C27_Witness ==
    /\ last.op = "get_child_logger"
    /\ last.exc
    /\ last.logger = <<LibraryName>>
    /\ last.slot = None
    /\ default_handler = DefaultH(1)
    /\ handlers = <<DefaultH(1)>>
    /\ level = INFO
    /\ ~propagate
    /\ loggers = <<>>

\* The statements of the longest call, enable_default_handler from the
\* Unconfigured state: the call, lines 261, 265 (two steps), 268, 269 (two
\* steps), 270, 271, the return, and line 419.
MaxCallSteps == 11

\* Thread t is the only one that has called into the module.
Solo(t) ==
    \A u \in Threads \ {t} : threads[u].pc = "idle" /\ threads[u].op = "none"

\* C28: the recursion between get_library_root_logger and
\* _configure_library_root_logger ends: no call enters
\* _configure_library_root_logger from inside itself more than once or runs
\* more than a fixed number of statements, and a first call made alone from
\* the Unconfigured state has entered it from inside itself exactly once
\* when it returns, with one default handler created.
C28_RecursionTerminates ==
    \A t \in Threads :
        /\ threads[t].nested <= 1
        /\ threads[t].steps <= MaxCallSteps
        /\ (threads[t].pc = "done" /\ Solo(t)) =>
              /\ threads[t].nested = 1
              /\ created = 1
              /\ default_handler = threads[t].mine

\* A first enable_default_handler call, made alone, has returned.
C28_Witness ==
    \E t \in Threads :
        /\ threads[t].pc = "done"
        /\ threads[t].op = "enable_default_handler"
        /\ Solo(t)
        /\ threads[t].nested = 1
        /\ threads[t].steps = MaxCallSteps

\* C29: when two threads have each entered and left a catch_all_handler
\* block of their own on the configured root logger, their steps interleaved
\* in any way, every handler that was attached before the first of them
\* began is attached again.
C29_NoHandlerLost ==
    (\A t \in ScopeThreads : threads[t].pc = "done") =>
        \A t \in ScopeThreads :
            Range(threads[t].before) \subseteq Range(handlers)

\* Both blocks have ended; the second thread took its copy while the first
\* thread's placeholder was the only handler, and the default handler and a
\* handler of the caller's are attached again.
C29_Witness ==
    /\ \A t \in ScopeThreads : threads[t].pc = "done"
    /\ threads[1].first
    /\ threads[1].before = <<DefaultH(1), CustomH(1)>>
    /\ threads[2].saved = <<InstNull(1)>>
    /\ {DefaultH(1), CustomH(1)} \subseteq Range(handlers)

====
